---- MODULE Spec2Model ----
(***************************************************************************)
(* State-machine model of Strawberry::Vulkan memory management             *)
(* (src/src/Strawberry/Vulkan/Memory/Allocator.hpp / Allocator.cpp):       *)
(* MemoryPool, Allocator and Allocation objects, the native device-memory  *)
(* calls they make (vkAllocateMemory, vkFreeMemory, vkMapMemory,           *)
(* vkFlushMappedMemoryRanges) and the Core::ReflexivePointer liveness      *)
(* tokens that link them.                                                  *)
(*                                                                         *)
(* Objects live in numbered storage slots.  A slot is either unconstructed *)
(* (alive = FALSE) or holds a constructed object.  A ReflexivePointer is   *)
(* NullPtr (no token), StalePtr (a token whose referent was destroyed) or  *)
(* the slot number of the live referent: destroying an object clears its   *)
(* shared token, which every holder observes, so the model rewrites every  *)
(* holder's reference to StalePtr in the destroying step.                  *)
(***************************************************************************)
EXTENDS Integers, Sequences, FiniteSets, TLC

\* ------------------------------------------------------------------ bounds
NPools == 2          \* free-standing MemoryPool storage slots
NAllocators == 1     \* Allocator storage slots (each embeds one MemoryPool)
NAllocations == 2    \* Allocation storage slots
MaxHandles == 2      \* successful native allocations in one run
MaxClaims == 2       \* Allocations issued by AllocateView in one run
MaxSize == 2         \* largest pool size / view size / buffer length - 1
MaxNativeCalls == 2  \* vkMapMemory calls, and Allocator::Free calls, per handle
NViewedPools == 1    \* free-standing pool slots in the Allocation specifications
MaxCounted == 2      \* history counters (moves of a claim, repeated calls) stop here

\* --------------------------------------------------------------- constants
\* VK_NULL_HANDLE, the default of MemoryPool::mMemory.
NullHandle == 0
\* uint32_t(-1), the default of MemoryPool::mMemoryTypeIndex.
NoMemoryType == -1
\* Core::ReflexivePointer holding nullptr.
NullPtr == 0
\* Core::ReflexivePointer whose referent has been destroyed (token cleared).
StalePtr == -1
\* VK_WHOLE_SIZE, the size of the range MemoryPool::Flush passes.
WholeSize == -1

PoolSlots == 1..NPools
AllocatorSlots == 1..NAllocators
\* The storage of Allocator a's member mMemoryPool.
MemberPool(a) == NPools + a
AllPoolSlots == 1..(NPools + NAllocators)
AllocationSlots == 1..NAllocations
Handles == 1..MaxHandles
Claims == 1..MaxClaims

\* The physical device's memory-type table (VkPhysicalDeviceMemoryProperties):
\* type 0 is device-local only, type 1 host-visible and host-coherent,
\* type 2 host-visible and not coherent.
MemoryTypes == {0, 1, 2}
\* propertyFlags of a memory type: VK_MEMORY_PROPERTY_DEVICE_LOCAL_BIT = 1,
\* HOST_VISIBLE_BIT = 2, HOST_COHERENT_BIT = 4.
PropertyFlags(t) == CASE t = 0 -> 1 [] t = 1 -> 6 [] t = 2 -> 2 [] OTHER -> 0
HostVisible(t) == (PropertyFlags(t) \div 2) % 2 = 1
HostCoherent(t) == (PropertyFlags(t) \div 4) % 2 = 1

\* The results vkAllocateMemory can give.
NativeAllocResults ==
    {"VK_SUCCESS", "VK_ERROR_OUT_OF_HOST_MEMORY", "VK_ERROR_OUT_OF_DEVICE_MEMORY",
     "VK_ERROR_TOO_MANY_OBJECTS"}
\* The results vkMapMemory / vkFlushMappedMemoryRanges can give.
NativeResults == {"VK_SUCCESS", "VK_ERROR_MEMORY_MAP_FAILED"}

\* A host address: the k-th mapping of memory object mem, plus a byte offset.
NoAddress == <<0, 0, 0>>
Address(mem, k, off) == <<mem, k, off>>

VARIABLES
    pools,          \* [AllPoolSlots -> pool record]
    allocators,     \* [AllocatorSlots -> [alive]]
    allocations,    \* [AllocationSlots -> allocation record]
    handlesIssued,  \* number of successful vkAllocateMemory calls
    freeCalls,      \* [Handles -> number of vkFreeMemory calls with that handle]
    nullFreeCalls,  \* the callers that passed VK_NULL_HANDLE to vkFreeMemory
    mapCalls,       \* [Handles -> number of vkMapMemory calls with that handle]
    flushCalls,     \* set of <<memory, offset, size>> passed to vkFlushMappedMemoryRanges
    memory,         \* [Handles -> sequence of bytes], the device memory contents
    claims,         \* [Claims -> history of the claim issued by AllocateView]
    lastCall        \* the operation performed last and its outcome

vars == <<pools, allocators, allocations, handlesIssued, freeCalls, nullFreeCalls,
          mapCalls, flushCalls, memory, claims, lastCall>>

\* ----------------------------------------------------- ReflexivePointer
\* ReflexivePointer::operator bool: the token exists and its referent lives.
Valid(ref) == ref > 0
\* std::move of a ReflexivePointer leaves the source holding nullptr.
MovedFromPtr(ref) == NullPtr
\* The reference a holder sees once object `slot` has been destroyed.
Invalidate(ref, slot) == IF ref = slot THEN StalePtr ELSE ref

\* --------------------------------------------------------------- records
\* MemoryPool() = default: the member initialisers of Allocator.hpp.
DefaultPool ==
    [alive |-> TRUE, mDevice |-> FALSE, mPhysicalDevice |-> FALSE,
     mMemoryTypeIndex |-> NoMemoryType, mMemory |-> NullHandle, mSize |-> 0,
     mMappedAddress |-> NoAddress]
\* Unconstructed MemoryPool storage.
NoPool == [DefaultPool EXCEPT !.alive = FALSE]

\* Allocation() = default: the member initialisers of Allocator.hpp.
DefaultAllocation ==
    [alive |-> TRUE, mAllocator |-> NullPtr, mRawAllocation |-> NullPtr,
     mOffset |-> 0, mSize |-> 0, claim |-> 0]
\* Unconstructed Allocation storage.
NoAllocation == [DefaultAllocation EXCEPT !.alive = FALSE]

NoClaim ==
    [issued |-> FALSE, allocator |-> 0, pool |-> 0, allocatorDestroyed |-> FALSE,
     poolDestroyed |-> FALSE, released |-> 0, releasedAfterPool |-> 0, moves |-> 0]

Call(op, obj, outcome, val, addr, refs) ==
    [op |-> op, obj |-> obj, outcome |-> outcome, val |-> val, addr |-> addr,
     refs |-> refs, args |-> <<>>, native |-> ""]
\* The call, with the arguments it was given.
WithArgs(call, args) == [call EXCEPT !.args = args]
\* The call, with the result the native call it made returned.
WithNative(call, res) == [call EXCEPT !.native = res]
NoRefs == <<NullPtr, NullPtr>>
Ok(op, obj) == Call(op, obj, "ok", 0, NoAddress, NoRefs)
\* The outcome of an operation that returns nothing and cannot fail.
Done == Ok("done", 0)
FailFast(op, obj) == Call(op, obj, "failfast", 0, NoAddress, NoRefs)
\* The outcome of an operation in which a copy outside live mapped memory
\* (undefined behaviour) brought the process down.
Crash(op, obj) == Call(op, obj, "crash", 0, NoAddress, NoRefs)

\* Core::Assert / Core::Unreachable failed, or the process crashed: it has
\* terminated.
Aborted == lastCall.outcome \in {"failfast", "crash"}

Init ==
    /\ pools = [p \in AllPoolSlots |-> NoPool]
    /\ allocators = [a \in AllocatorSlots |-> [alive |-> FALSE]]
    /\ allocations = [h \in AllocationSlots |-> NoAllocation]
    /\ handlesIssued = 0
    /\ freeCalls = [m \in Handles |-> 0]
    /\ nullFreeCalls = {}
    /\ mapCalls = [m \in Handles |-> 0]
    /\ flushCalls = {}
    /\ memory = [m \in Handles |-> <<>>]
    /\ claims = [c \in Claims |-> NoClaim]
    /\ lastCall = Done

\* ------------------------------------------------------------ MemoryPool
\* MemoryPool(device, physicalDevice, memoryTypeIndex, memory, size).
NewPool(t, mem, size) ==
    [alive |-> TRUE, mDevice |-> TRUE, mPhysicalDevice |-> TRUE,
     mMemoryTypeIndex |-> t, mMemory |-> mem, mSize |-> size,
     mMappedAddress |-> NoAddress]

\* MemoryPool(MemoryPool&& other): the object constructed.  mMappedAddress is
\* not in the initialiser list, so it takes its default, NullOpt.
MovedPool(other) ==
    [alive |-> TRUE, mDevice |-> other.mDevice, mPhysicalDevice |-> other.mPhysicalDevice,
     mMemoryTypeIndex |-> other.mMemoryTypeIndex, mMemory |-> other.mMemory,
     mSize |-> other.mSize, mMappedAddress |-> NoAddress]

\* MemoryPool(MemoryPool&& other): what is left in other.  Its mMappedAddress
\* is not touched.
MovedFromPool(other) ==
    [other EXCEPT !.mDevice = FALSE, !.mPhysicalDevice = FALSE,
                  !.mMemoryTypeIndex = NoMemoryType, !.mMemory = NullHandle,
                  !.mSize = 0]

\* ~MemoryPool: whether vkFreeMemory is called.
PoolDtorFrees(pool) == pool.mMemory # NullHandle

\* vkFreeMemory(device, mem): the call counts after it.
NativeFree(fc, mem) == IF mem = NullHandle THEN fc ELSE [fc EXCEPT ![mem] = @ + 1]

FreeCallsAfterPoolDtor(fc, pool) ==
    IF PoolDtorFrees(pool) THEN NativeFree(fc, pool.mMemory) ELSE fc

\* vkFreeMemory(device, mem) called by `caller`: who has passed VK_NULL_HANDLE.
NativeNullFree(nf, mem, caller) == IF mem = NullHandle THEN nf \cup {caller} ELSE nf

NullFreesAfterPoolDtor(nf, pool) ==
    IF PoolDtorFrees(pool) THEN NativeNullFree(nf, pool.mMemory, "~MemoryPool") ELSE nf

\* ~EnableReflexivePointer of the pool in slot p, as the Allocations see it.
AllocationsAfterPoolGone(als, p) ==
    [h \in AllocationSlots |->
        [als[h] EXCEPT !.mRawAllocation = Invalidate(@, p)]]

ClaimsAfterPoolGone(cl, p) ==
    [c \in Claims |->
        IF cl[c].issued /\ cl[c].pool = p
        THEN [cl[c] EXCEPT !.poolDestroyed = TRUE] ELSE cl[c]]

ZeroBytes(n) == [i \in 1..n |-> 0]

\* As AllocateOutcome, VK_ERROR_OUT_OF_DEVICE_MEMORY left to the default case.
AllocateOutcomeHostOnly(res) ==
    CASE res = "VK_ERROR_OUT_OF_HOST_MEMORY" -> "OutOfMemory"
      [] res = "VK_SUCCESS" -> "ok"
      [] OTHER -> "failfast"

\* MemoryPool::Allocate: the switch on the result of vkAllocateMemory.
AllocateOutcome(res) ==
    CASE res \in {"VK_ERROR_OUT_OF_HOST_MEMORY", "VK_ERROR_OUT_OF_DEVICE_MEMORY"} ->
            "OutOfMemory"
      [] res = "VK_SUCCESS" -> "ok"
      [] OTHER -> "failfast"

\* MemoryPool::Allocate into unconstructed slot p.
PoolAllocate(p, t, size) ==
    /\ ~Aborted
    /\ ~pools[p].alive
    /\ \E res \in NativeAllocResults :
        \* a successful vkAllocateMemory hands out a new handle
        /\ res = "VK_SUCCESS" => handlesIssued < MaxHandles
        /\ handlesIssued' = IF res = "VK_SUCCESS" THEN handlesIssued + 1 ELSE handlesIssued
        /\ memory' = IF res = "VK_SUCCESS"
                     THEN [memory EXCEPT ![handlesIssued + 1] = ZeroBytes(size)]
                     ELSE memory
        /\ pools' = IF AllocateOutcome(res) = "ok"
                    THEN [pools EXCEPT ![p] = NewPool(t, handlesIssued + 1, size)]
                    ELSE pools
        /\ lastCall' = WithNative(WithArgs(
                           Call("PoolAllocate", p, AllocateOutcome(res),
                                IF AllocateOutcome(res) = "ok" THEN handlesIssued + 1 ELSE 0,
                                NoAddress, NoRefs), <<t, size>>), res)
    /\ UNCHANGED <<allocators, allocations, freeCalls, nullFreeCalls, mapCalls,
                   flushCalls, claims>>

\* MemoryPool() = default, into unconstructed slot p.
PoolDefaultConstruct(p) ==
    /\ ~Aborted
    /\ ~pools[p].alive
    /\ pools' = [pools EXCEPT ![p] = DefaultPool]
    /\ lastCall' = Done
    /\ UNCHANGED <<allocators, allocations, handlesIssued, freeCalls, nullFreeCalls,
                   mapCalls, flushCalls, memory, claims>>

\* MemoryPool(MemoryPool&& other) into unconstructed slot p from pool q.
PoolMoveConstruct(p, q) ==
    /\ ~Aborted
    /\ ~pools[p].alive
    /\ pools[q].alive
    /\ pools' = [pools EXCEPT ![p] = MovedPool(pools[q]), ![q] = MovedFromPool(pools[q])]
    /\ lastCall' = Done
    /\ UNCHANGED <<allocators, allocations, handlesIssued, freeCalls, nullFreeCalls,
                   mapCalls, flushCalls, memory, claims>>

\* MemoryPool::operator=(MemoryPool&& other): p = std::move(q).
PoolMoveAssign(p, q) ==
    /\ ~Aborted
    /\ pools[p].alive
    /\ pools[q].alive
    /\ lastCall' = Done
    /\ IF p # q
       THEN \* std::destroy_at(this); std::construct_at(this, std::move(other))
            /\ freeCalls' = FreeCallsAfterPoolDtor(freeCalls, pools[p])
            /\ nullFreeCalls' = NullFreesAfterPoolDtor(nullFreeCalls, pools[p])
            /\ allocations' = AllocationsAfterPoolGone(allocations, p)
            /\ claims' = ClaimsAfterPoolGone(claims, p)
            /\ pools' = [pools EXCEPT ![p] = MovedPool(pools[q]),
                                      ![q] = MovedFromPool(pools[q])]
       ELSE UNCHANGED <<pools, freeCalls, nullFreeCalls, allocations, claims>>
    /\ UNCHANGED <<allocators, handlesIssued, mapCalls, flushCalls, memory>>

\* ~MemoryPool of the pool in slot p.
PoolDestroy(p) ==
    /\ ~Aborted
    /\ pools[p].alive
    /\ freeCalls' = FreeCallsAfterPoolDtor(freeCalls, pools[p])
    /\ nullFreeCalls' = NullFreesAfterPoolDtor(nullFreeCalls, pools[p])
    /\ allocations' = AllocationsAfterPoolGone(allocations, p)
    /\ claims' = ClaimsAfterPoolGone(claims, p)
    /\ pools' = [pools EXCEPT ![p] = NoPool]
    /\ lastCall' = Done
    /\ UNCHANGED <<allocators, handlesIssued, mapCalls, flushCalls, memory>>

\* MemoryPool::GetMappedAddress: whether the native map is needed.
PoolNeedsMap(pool) == pool.mMappedAddress = NoAddress

\* As PoolAfterMap, the address returned without being cached.
PoolAfterMapUncached(pool, addr) == pool

\* MemoryPool::GetMappedAddress: the pool as it is after a successful call
\* in which vkMapMemory returned addr.
PoolAfterMap(pool, addr) == [pool EXCEPT !.mMappedAddress = addr]

\* MemoryPool::Properties: dereferences mPhysicalDevice.
PoolPropertiesFail(pool) == ~pool.mPhysicalDevice

\* MemoryPool::GetMappedAddress on the pool in slot p: every outcome the call
\* can have, as [failfast, pools, mapCalls, addr].  vkMapMemory returns either
\* a fresh mapping of the memory object or the address of an earlier one, or
\* fails.
GetMappedResults(p) ==
    LET pool == pools[p]
        mem == pool.mMemory
    IN  IF ~PoolNeedsMap(pool)
        THEN {[failfast |-> FALSE, pools |-> pools, mapCalls |-> mapCalls,
               addr |-> pool.mMappedAddress]}
        ELSE IF PoolPropertiesFail(pool) \/ ~HostVisible(pool.mMemoryTypeIndex)
                \/ ~pool.mDevice
        THEN {[failfast |-> TRUE, pools |-> pools, mapCalls |-> mapCalls,
               addr |-> NoAddress]}
        ELSE IF mapCalls[mem] >= MaxNativeCalls THEN {}
        ELSE LET mc == [mapCalls EXCEPT ![mem] = @ + 1]
             IN  {[failfast |-> TRUE, pools |-> pools, mapCalls |-> mc, addr |-> NoAddress]}
                 \cup
                 {[failfast |-> FALSE,
                   pools |-> [pools EXCEPT ![p] = PoolAfterMap(pool, Address(mem, k, 0))],
                   mapCalls |-> mc, addr |-> Address(mem, k, 0)] : k \in 1..mc[mem]}

\* How many calls of op on obj in a row this one makes, counted to MaxCounted.
Repeats(op, obj) ==
    IF lastCall.op = op /\ lastCall.obj = obj /\ lastCall.outcome = "ok"
    THEN (IF lastCall.val < MaxCounted THEN lastCall.val + 1 ELSE lastCall.val)
    ELSE 1

\* MemoryPool::GetMappedAddress called on the pool in slot p.
PoolGetMappedAddress(p) ==
    /\ ~Aborted
    /\ pools[p].alive
    /\ \E r \in GetMappedResults(p) :
        /\ pools' = r.pools
        /\ mapCalls' = r.mapCalls
        /\ lastCall' = IF r.failfast THEN FailFast("PoolGetMappedAddress", p)
                       ELSE Call("PoolGetMappedAddress", p, "ok", Repeats("PoolGetMappedAddress", p),
                                 r.addr, NoRefs)
    /\ UNCHANGED <<allocators, allocations, handlesIssued, freeCalls, nullFreeCalls,
                   flushCalls, memory, claims>>

\* std::memcpy(addr, bytes.Data(), bytes.Size()): the device memory after it.
\* Bytes that fall outside the memory object are not part of any pool.
MemoryAfterCopy(mm, addr, bytes) ==
    IF addr[1] = NullHandle THEN mm
    ELSE [mm EXCEPT ![addr[1]] =
            [i \in 1..Len(@) |->
                IF addr[3] < i /\ i <= addr[3] + Len(bytes) THEN bytes[i - addr[3]]
                ELSE @[i]]]

\* std::memcpy(addr, ..., n) is defined: it copies nothing, or its whole
\* destination lies in a memory object that has not been freed.
CopyDefined(mm, fc, addr, n) ==
    \/ n = 0
    \/ /\ addr[1] # NullHandle
       /\ fc[addr[1]] = 0
       /\ addr[3] + n <= Len(mm[addr[1]])

\* std::memcpy(addr, bytes.Data(), bytes.Size()): every outcome, as
\* [crash, memory].  A copy that is not defined either brings the process
\* down or stores what it can reach.
CopyOutcomes(mm, fc, addr, bytes) ==
    {[crash |-> FALSE, memory |-> MemoryAfterCopy(mm, addr, bytes)]}
    \cup (IF CopyDefined(mm, fc, addr, Len(bytes)) THEN {}
          ELSE {[crash |-> TRUE, memory |-> mm]})

\* *mDevice: fails on a null device reference.
PoolDeviceFail(pool) == ~pool.mDevice

\* MemoryPool::Flush: the range passed to vkFlushMappedMemoryRanges.
PoolFlushRange(pool) == <<pool.mMemory, 0, WholeSize>>

\* MemoryPool::Flush on pool: every outcome, as [failfast, flushCalls].
PoolFlushResults(pool) ==
    IF PoolDeviceFail(pool)
    THEN {[failfast |-> TRUE, flushCalls |-> flushCalls]}
    ELSE {[failfast |-> res # "VK_SUCCESS",
           flushCalls |-> flushCalls \cup {PoolFlushRange(pool)}] : res \in NativeResults}

\* MemoryPool::Flush called on the pool in slot p.
PoolFlush(p) ==
    /\ ~Aborted
    /\ pools[p].alive
    /\ \E f \in PoolFlushResults(pools[p]) :
        /\ flushCalls' = f.flushCalls
        /\ lastCall' = IF f.failfast THEN FailFast("PoolFlush", p) ELSE Ok("PoolFlush", p)
    /\ UNCHANGED <<pools, allocators, allocations, handlesIssued, freeCalls,
                   nullFreeCalls, mapCalls, memory, claims>>

\* MemoryPool::Overwrite: Core::Assert(bytes.Size() <= Size()).
PoolOverwriteAssertHolds(pool, bytes) == Len(bytes) <= pool.mSize

\* As PoolOverwriteFlushes, the coherence test left out.
PoolOverwriteFlushesAlways(pool) == TRUE

\* MemoryPool::Overwrite: whether Flush is called after the copy.
PoolOverwriteFlushes(pool) == ~HostCoherent(pool.mMemoryTypeIndex)

\* MemoryPool::Overwrite(bytes) called on the pool in slot p.  In lastCall,
\* val is the number of vkFlushMappedMemoryRanges calls the call made.
PoolOverwrite(p, bytes) ==
    /\ ~Aborted
    /\ pools[p].alive
    /\ IF ~PoolOverwriteAssertHolds(pools[p], bytes)
       THEN /\ lastCall' = WithArgs(FailFast("PoolOverwrite", p), bytes)
            /\ UNCHANGED <<pools, mapCalls, memory, flushCalls>>
       ELSE \E r \in GetMappedResults(p) :
            /\ pools' = r.pools
            /\ mapCalls' = r.mapCalls
            /\ IF r.failfast
               THEN /\ lastCall' = WithArgs(FailFast("PoolOverwrite", p), bytes)
                    /\ UNCHANGED <<memory, flushCalls>>
               ELSE \E c \in CopyOutcomes(memory, freeCalls, r.addr, bytes) :
                    /\ memory' = c.memory
                    /\ IF c.crash
                       THEN /\ lastCall' = WithArgs(Crash("PoolOverwrite", p), bytes)
                            /\ UNCHANGED flushCalls
                       ELSE IF PoolPropertiesFail(pools[p])
                       THEN /\ lastCall' = WithArgs(FailFast("PoolOverwrite", p), bytes)
                            /\ UNCHANGED flushCalls
                       ELSE IF ~PoolOverwriteFlushes(pools[p])
                       THEN /\ lastCall' = WithArgs(Call("PoolOverwrite", p, "ok", 0, r.addr,
                                                         NoRefs), bytes)
                            /\ UNCHANGED flushCalls
                       ELSE \E f \in PoolFlushResults(pools[p]) :
                            /\ flushCalls' = f.flushCalls
                            /\ lastCall' = WithArgs(
                                   IF f.failfast THEN FailFast("PoolOverwrite", p)
                                   ELSE Call("PoolOverwrite", p, "ok", 1, r.addr, NoRefs),
                                   bytes)
    /\ UNCHANGED <<allocators, allocations, handlesIssued, freeCalls, nullFreeCalls,
                   claims>>

\* ------------------------------------------------------------- Allocator
\* Allocator(MemoryPool&& memoryPool): mMemoryPool is move-constructed from
\* the pool in slot p.
AllocatorConstruct(a, p) ==
    /\ ~Aborted
    /\ ~allocators[a].alive
    /\ pools[p].alive
    /\ allocators' = [allocators EXCEPT ![a] = [alive |-> TRUE]]
    /\ pools' = [pools EXCEPT ![MemberPool(a)] = MovedPool(pools[p]),
                              ![p] = MovedFromPool(pools[p])]
    /\ lastCall' = Done
    /\ UNCHANGED <<allocations, handlesIssued, freeCalls, nullFreeCalls, mapCalls,
                   flushCalls, memory, claims>>

\* Allocator::GetDevice then operator*: fails on a null device reference.
AllocatorDeviceFail(a) == ~pools[MemberPool(a)].mDevice

\* Allocator::Free(MemoryPool&& allocation): vkFreeMemory on the pool's handle;
\* the pool passed keeps its handle.
AllocatorFreePool(a, q) ==
    /\ ~Aborted
    /\ allocators[a].alive
    /\ pools[q].alive
    /\ pools[q].mMemory # NullHandle => freeCalls[pools[q].mMemory] < MaxNativeCalls
    /\ IF AllocatorDeviceFail(a)
       THEN /\ lastCall' = FailFast("AllocatorFreePool", q)
            /\ UNCHANGED <<freeCalls, nullFreeCalls>>
       ELSE /\ lastCall' = Ok("AllocatorFreePool", q)
            /\ freeCalls' = NativeFree(freeCalls, pools[q].mMemory)
            /\ nullFreeCalls' = NativeNullFree(nullFreeCalls, pools[q].mMemory, "Allocator::Free")
    /\ UNCHANGED <<pools, allocators, allocations, handlesIssued, mapCalls, flushCalls,
                   memory, claims>>

\* ~EnableReflexivePointer of the allocator in slot a, as the Allocations see it.
AllocationsAfterAllocatorGone(als, a) ==
    [h \in AllocationSlots |-> [als[h] EXCEPT !.mAllocator = Invalidate(@, a)]]

ClaimsAfterAllocatorGone(cl, a) ==
    [c \in Claims |->
        IF cl[c].issued /\ cl[c].allocator = a
        THEN [cl[c] EXCEPT !.allocatorDestroyed = TRUE] ELSE cl[c]]

\* ~Allocator: the member mMemoryPool is destroyed, then the
\* EnableReflexivePointer base.
AllocatorDestroy(a) ==
    /\ ~Aborted
    /\ allocators[a].alive
    /\ allocators' = [allocators EXCEPT ![a] = [alive |-> FALSE]]
    /\ freeCalls' = FreeCallsAfterPoolDtor(freeCalls, pools[MemberPool(a)])
    /\ nullFreeCalls' = NullFreesAfterPoolDtor(nullFreeCalls, pools[MemberPool(a)])
    /\ pools' = [pools EXCEPT ![MemberPool(a)] = NoPool]
    /\ allocations' = AllocationsAfterAllocatorGone(
                          AllocationsAfterPoolGone(allocations, MemberPool(a)), a)
    /\ claims' = ClaimsAfterAllocatorGone(ClaimsAfterPoolGone(claims, MemberPool(a)), a)
    /\ lastCall' = Done
    /\ UNCHANGED <<handlesIssued, mapCalls, flushCalls, memory>>

\* ------------------------------------------------------- AllocationError
\* The reasons declared in AllocationError: OutOfMemory, MemoryTypeUnavailable
\* and RequestTooLarge, numbered in the order of their declaration.
ReasonNames == <<"OutOfMemory", "MemoryTypeUnavailable", "RequestTooLarge">>
Reasons == 1..Len(ReasonNames)

\* using Info = Core::Variant<OutOfMemory, MemoryTypeUnavailable>: the reasons
\* mInfo can hold.
InfoAlternatives == {r \in Reasons : ReasonNames[r] \in {"OutOfMemory", "MemoryTypeUnavailable"}}

\* AllocationError(T info) : mInfo(info) is well-formed when Info can be
\* initialised from a T.
ErrorConstructible(r) == r \in InfoAlternatives

\* AllocationError::IsType<T> on an error holding `held`: mInfo.IsType<T>().
ErrorHolds(held, t) == held = t

\* AllocationError(R{}).IsType<T>(): every outcome.  Asking a Variant for a
\* type that is not one of its alternatives gives false or is rejected by
\* the compiler.
ErrorIsTypeOutcomes(r, t) ==
    IF ~ErrorConstructible(r) THEN {Call("AllocationErrorIsType", 0, "ill-formed", 0, NoAddress, NoRefs)}
    ELSE {Call("AllocationErrorIsType", 0, "ok", IF ErrorHolds(r, t) THEN 1 ELSE 0,
               NoAddress, NoRefs)}
         \cup (IF t \in InfoAlternatives THEN {}
               ELSE {Call("AllocationErrorIsType", 0, "ill-formed", 0, NoAddress, NoRefs)})

\* An AllocationError is constructed from reason r and asked IsType<t>.
AllocationErrorIsType(r, t) ==
    /\ ~Aborted
    /\ \E call \in ErrorIsTypeOutcomes(r, t) : lastCall' = WithArgs(call, <<r, t>>)
    /\ UNCHANGED <<pools, allocators, allocations, handlesIssued, freeCalls,
                   nullFreeCalls, mapCalls, flushCalls, memory, claims>>

\* ------------------------------------------------------------ Allocation
ClaimsIssued == Cardinality({c \in Claims : claims[c].issued})

\* Allocation(allocator, allocation, offset, size), issued as claim c.
NewAllocation(a, p, off, size, c) ==
    [alive |-> TRUE, mAllocator |-> a, mRawAllocation |-> p, mOffset |-> off,
     mSize |-> size, claim |-> c]

\* The claim stays with the object that holds the references.
HeldClaim(allocatorRef, poolRef, c) ==
    IF allocatorRef = NullPtr /\ poolRef = NullPtr THEN 0 ELSE c

\* As MovedAllocation, mOffset and mSize left at their defaults.
MovedAllocationDefaultView(other) ==
    [alive |-> TRUE, mAllocator |-> other.mAllocator,
     mRawAllocation |-> other.mRawAllocation, mOffset |-> 0, mSize |-> 0,
     claim |-> other.claim]

\* Allocation(Allocation&& other): the object constructed.
MovedAllocation(other) ==
    [alive |-> TRUE, mAllocator |-> other.mAllocator,
     mRawAllocation |-> other.mRawAllocation, mOffset |-> other.mOffset,
     mSize |-> other.mSize, claim |-> other.claim]

\* As MovedFromAllocation, the references copied instead of moved.
MovedFromAllocationCopied(other) == other

\* Allocation(Allocation&& other): what is left in other; mOffset and mSize
\* are copied, not reset.
MovedFromAllocation(other) ==
    [other EXCEPT !.mAllocator = MovedFromPtr(@),
                  !.mRawAllocation = MovedFromPtr(@),
                  !.claim = HeldClaim(MovedFromPtr(other.mAllocator),
                                      MovedFromPtr(other.mRawAllocation), @)]

\* The claim held by other has moved to another object once more.
ClaimsAfterMove(cl, other) ==
    IF other.claim = 0 THEN cl
    ELSE [cl EXCEPT ![other.claim] =
            [@ EXCEPT !.moves = IF @ < MaxCounted THEN @ + 1 ELSE @]]

\* ~Allocation: Core::AssertImplication(!mAllocator, !mRawAllocation).
DtorAssertHolds(al) == (~Valid(al.mAllocator)) => ~Valid(al.mRawAllocation)

\* ~Allocation: if (mAllocator) mAllocator->Free(std::move(*this)).
DtorCallsFree(al) == Valid(al.mAllocator)

\* ~Allocation: the object when the destructor's body has run.  Free takes
\* an rvalue reference and the body assigns no member.
AfterDtorBody(al) == al

\* Allocator::Free(Allocation&&) is invoked with al: the claim's history.
ClaimsAfterFree(cl, al) ==
    [cl EXCEPT ![al.claim] =
        [@ EXCEPT !.released = @ + 1,
                  !.releasedAfterPool = @ + (IF Valid(al.mRawAllocation) THEN 0 ELSE 1)]]

ClaimsAfterAllocationDtor(cl, al) ==
    IF DtorCallsFree(al) THEN ClaimsAfterFree(cl, al) ELSE cl

DtorCall(op, h, al) ==
    Call(op, h, "ok", IF DtorCallsFree(al) THEN 1 ELSE 0, NoAddress,
         <<AfterDtorBody(al).mAllocator, AfterDtorBody(al).mRawAllocation>>)

\* MemoryPool::AllocateView(allocator, offset, size) on the pool in slot p,
\* the Allocation returned constructed in slot h.
AllocateView(h, a, p, off, size) ==
    /\ ~Aborted
    /\ ~allocations[h].alive
    /\ allocators[a].alive
    /\ pools[p].alive
    /\ ClaimsIssued < MaxClaims
    /\ allocations' = [allocations EXCEPT
                           ![h] = NewAllocation(a, p, off, size, ClaimsIssued + 1)]
    /\ claims' = [claims EXCEPT ![ClaimsIssued + 1] =
                     [NoClaim EXCEPT !.issued = TRUE, !.allocator = a, !.pool = p]]
    /\ lastCall' = Done
    /\ UNCHANGED <<pools, allocators, handlesIssued, freeCalls, nullFreeCalls, mapCalls,
                   flushCalls, memory>>

\* AllocationRequest: size, alignment and memoryTypeMask.
Request(size, alignment, mask) ==
    [size |-> size, alignment |-> alignment, memoryTypeMask |-> mask]

\* Bit t of a memory-type bitmask.
MaskHasType(mask, t) == t >= 0 /\ (mask \div (2 ^ t)) % 2 = 1

\* As TypeAvailable, the mask not consulted.
TypeAvailableAlways(a, req) == TRUE

\* Allocator::Allocate: the pool the allocator manages matches a bit of the
\* request's mask.
TypeAvailable(a, req) ==
    MaskHasType(req.memoryTypeMask, pools[MemberPool(a)].mMemoryTypeIndex)

\* Allocator::Allocate: the managed pool can hold size bytes at an aligned
\* offset (offset 0 is aligned for every alignment).
RequestFits(a, req) == req.size <= pools[MemberPool(a)].mSize

\* Allocator::Allocate(request) on allocator a, the Allocation returned
\* constructed in slot h.
AllocatorAllocate(h, a, req) ==
    /\ ~Aborted
    /\ allocators[a].alive
    /\ ~allocations[h].alive
    /\ LET args == <<req.size, req.alignment, req.memoryTypeMask>>
           failed(reason) ==
               /\ lastCall' = WithArgs(Call("AllocatorAllocate", a, reason, 0, NoAddress,
                                            NoRefs), args)
               /\ UNCHANGED <<allocations, claims>>
       IN  IF ~TypeAvailable(a, req) THEN failed("MemoryTypeUnavailable")
           ELSE IF ~RequestFits(a, req) THEN failed("RequestTooLarge")
           ELSE \/ failed("OutOfMemory")
                \/ /\ ClaimsIssued < MaxClaims
                   /\ allocations' = [allocations EXCEPT ![h] =
                          NewAllocation(a, MemberPool(a), 0, req.size, ClaimsIssued + 1)]
                   /\ claims' = [claims EXCEPT ![ClaimsIssued + 1] =
                          [NoClaim EXCEPT !.issued = TRUE, !.allocator = a,
                                          !.pool = MemberPool(a)]]
                   /\ lastCall' = WithArgs(Ok("AllocatorAllocate", a), args)
    /\ UNCHANGED <<pools, allocators, handlesIssued, freeCalls, nullFreeCalls, mapCalls,
                   flushCalls, memory>>

\* Allocation() = default, into unconstructed slot h.
AllocationDefaultConstruct(h) ==
    /\ ~Aborted
    /\ ~allocations[h].alive
    /\ allocations' = [allocations EXCEPT ![h] = DefaultAllocation]
    /\ lastCall' = Done
    /\ UNCHANGED <<pools, allocators, handlesIssued, freeCalls, nullFreeCalls, mapCalls,
                   flushCalls, memory, claims>>

\* Allocation(Allocation&& other) into unconstructed slot h from slot g.
AllocationMoveConstruct(h, g) ==
    /\ ~Aborted
    /\ ~allocations[h].alive
    /\ allocations[g].alive
    /\ allocations' = [allocations EXCEPT ![h] = MovedAllocation(allocations[g]),
                                          ![g] = MovedFromAllocation(allocations[g])]
    /\ claims' = ClaimsAfterMove(claims, allocations[g])
    /\ lastCall' = Done
    /\ UNCHANGED <<pools, allocators, handlesIssued, freeCalls, nullFreeCalls, mapCalls,
                   flushCalls, memory>>

\* Allocation::operator=(Allocation&& other): h = std::move(g).
AllocationMoveAssign(h, g) ==
    /\ ~Aborted
    /\ allocations[h].alive
    /\ allocations[g].alive
    /\ IF h = g
       THEN /\ lastCall' = WithArgs(Ok("AllocationMoveAssign", h), <<g>>)
            /\ UNCHANGED <<allocations, claims>>
       ELSE IF ~DtorAssertHolds(allocations[h])
       THEN /\ lastCall' = WithArgs(FailFast("AllocationMoveAssign", h), <<g>>)
            /\ UNCHANGED <<allocations, claims>>
       ELSE \* std::destroy_at(this); std::construct_at(this, std::move(other))
            /\ claims' = ClaimsAfterMove(
                             ClaimsAfterAllocationDtor(claims, allocations[h]),
                             allocations[g])
            /\ allocations' = [allocations EXCEPT
                                  ![h] = MovedAllocation(allocations[g]),
                                  ![g] = MovedFromAllocation(allocations[g])]
            /\ lastCall' = WithArgs(DtorCall("AllocationMoveAssign", h, allocations[h]),
                                    <<g>>)
    /\ UNCHANGED <<pools, allocators, handlesIssued, freeCalls, nullFreeCalls, mapCalls,
                   flushCalls, memory>>

\* ~Allocation of the object in slot h.
AllocationDestroy(h) ==
    /\ ~Aborted
    /\ allocations[h].alive
    /\ IF ~DtorAssertHolds(allocations[h])
       THEN /\ lastCall' = FailFast("AllocationDestroy", h)
            /\ UNCHANGED <<allocations, claims>>
       ELSE /\ claims' = ClaimsAfterAllocationDtor(claims, allocations[h])
            /\ allocations' = [allocations EXCEPT ![h] = NoAllocation]
            /\ lastCall' = DtorCall("AllocationDestroy", h, allocations[h])
    /\ UNCHANGED <<pools, allocators, handlesIssued, freeCalls, nullFreeCalls, mapCalls,
                   flushCalls, memory>>

\* Allocation::operator bool: Core::AssertImplication(!mAllocator, mRawAllocation).
BoolAssertHolds(al) == (~Valid(al.mAllocator)) => Valid(al.mRawAllocation)

\* Allocation::operator bool: the value returned.
BoolValue(al) == Valid(al.mAllocator)

\* An accessor that changes nothing but reports its outcome.
Report(call) ==
    /\ lastCall' = call
    /\ UNCHANGED <<pools, allocators, allocations, handlesIssued, freeCalls,
                   nullFreeCalls, mapCalls, flushCalls, memory, claims>>

AllocationBool(h) ==
    /\ ~Aborted
    /\ allocations[h].alive
    /\ Report(IF BoolAssertHolds(allocations[h])
              THEN Call("AllocationBool", h, "ok",
                        IF BoolValue(allocations[h]) THEN 1 ELSE 0, NoAddress, NoRefs)
              ELSE FailFast("AllocationBool", h))

\* mRawAllocation-> : ReflexivePointer::operator-> asserts the referent lives.
PoolDerefFails(al) == ~Valid(al.mRawAllocation)

\* As MemoryCall, the handle read without checking that the pool lives.
MemoryCallUnchecked(h, al) ==
    Call("AllocationMemory", h, "ok",
         IF Valid(al.mRawAllocation) THEN pools[al.mRawAllocation].mMemory ELSE NullHandle,
         NoAddress, NoRefs)

\* Allocation::Memory.
MemoryCall(h, al) ==
    IF PoolDerefFails(al) THEN FailFast("AllocationMemory", h)
    ELSE Call("AllocationMemory", h, "ok", pools[al.mRawAllocation].mMemory, NoAddress, NoRefs)

AllocationMemory(h) ==
    /\ ~Aborted
    /\ allocations[h].alive
    /\ Report(MemoryCall(h, allocations[h]))

\* Allocation::Offset.
OffsetCall(h, al) == Call("AllocationOffset", h, "ok", al.mOffset, NoAddress, NoRefs)

AllocationOffset(h) ==
    /\ ~Aborted
    /\ allocations[h].alive
    /\ Report(OffsetCall(h, allocations[h]))

\* Allocation::Size.
SizeCall(h, al) == Call("AllocationSize", h, "ok", al.mSize, NoAddress, NoRefs)

AllocationSize(h) ==
    /\ ~Aborted
    /\ allocations[h].alive
    /\ Report(SizeCall(h, allocations[h]))

\* Allocation::Properties.
PropertiesCall(h, al) ==
    IF PoolDerefFails(al) THEN FailFast("AllocationProperties", h)
    ELSE IF PoolPropertiesFail(pools[al.mRawAllocation])
    THEN FailFast("AllocationProperties", h)
    ELSE Call("AllocationProperties", h, "ok",
              PropertyFlags(pools[al.mRawAllocation].mMemoryTypeIndex), NoAddress, NoRefs)

AllocationProperties(h) ==
    /\ ~Aborted
    /\ allocations[h].alive
    /\ Report(PropertiesCall(h, allocations[h]))

\* address + offset.
Advance(addr, off) == <<addr[1], addr[2], addr[3] + off>>

\* Allocation::GetMappedAddress: every outcome, as GetMappedResults gives them,
\* the address advanced by mOffset.
AllocationMappedResults(al) ==
    IF PoolDerefFails(al)
    THEN {[failfast |-> TRUE, pools |-> pools, mapCalls |-> mapCalls, addr |-> NoAddress]}
    ELSE {[r EXCEPT !.addr = IF r.failfast THEN NoAddress ELSE Advance(@, al.mOffset)] :
            r \in GetMappedResults(al.mRawAllocation)}

AllocationGetMappedAddress(h) ==
    /\ ~Aborted
    /\ allocations[h].alive
    /\ \E r \in AllocationMappedResults(allocations[h]) :
        /\ pools' = r.pools
        /\ mapCalls' = r.mapCalls
        /\ lastCall' = IF r.failfast THEN FailFast("AllocationGetMappedAddress", h)
                       ELSE Call("AllocationGetMappedAddress", h, "ok", 0, r.addr, NoRefs)
    /\ UNCHANGED <<allocators, allocations, handlesIssued, freeCalls, nullFreeCalls,
                   flushCalls, memory, claims>>

\* Allocation::Flush: fails before the native call when Memory() or
\* *GetAllocator()->GetDevice() dereferences a dead or null reference.
FlushDerefFails(al) ==
    \/ PoolDerefFails(al)
    \/ ~Valid(al.mAllocator)
    \/ AllocatorDeviceFail(al.mAllocator)

\* Allocation::Flush: the range passed to vkFlushMappedMemoryRanges.
FlushRange(al) == <<pools[al.mRawAllocation].mMemory, al.mOffset, al.mSize>>

AllocationFlush(h) ==
    /\ ~Aborted
    /\ allocations[h].alive
    /\ IF FlushDerefFails(allocations[h])
       THEN /\ lastCall' = FailFast("AllocationFlush", h)
            /\ UNCHANGED flushCalls
       ELSE /\ flushCalls' = flushCalls \cup {FlushRange(allocations[h])}
            /\ \E res \in NativeResults :
                lastCall' = IF res = "VK_SUCCESS" THEN Ok("AllocationFlush", h)
                            ELSE FailFast("AllocationFlush", h)
    /\ UNCHANGED <<pools, allocators, allocations, handlesIssued, freeCalls,
                   nullFreeCalls, mapCalls, memory, claims>>

\* As OverwriteAssertHolds, the bound off by one.
OverwriteAssertLax(al, bytes) == Len(bytes) <= al.mSize + 1

\* Allocation::Overwrite: Core::Assert(bytes.Size() <= Size()).
OverwriteAssertHolds(al, bytes) == Len(bytes) <= al.mSize

AllocationOverwrite(h, bytes) ==
    /\ ~Aborted
    /\ allocations[h].alive
    /\ IF ~OverwriteAssertHolds(allocations[h], bytes)
       THEN /\ lastCall' = WithArgs(FailFast("AllocationOverwrite", h), bytes)
            /\ UNCHANGED <<pools, mapCalls, memory>>
       ELSE \E r \in AllocationMappedResults(allocations[h]) :
            /\ pools' = r.pools
            /\ mapCalls' = r.mapCalls
            /\ IF r.failfast
               THEN /\ lastCall' = WithArgs(FailFast("AllocationOverwrite", h), bytes)
                    /\ UNCHANGED memory
               ELSE \E c \in CopyOutcomes(memory, freeCalls, r.addr, bytes) :
                    /\ memory' = c.memory
                    /\ lastCall' = WithArgs(
                           IF c.crash THEN Crash("AllocationOverwrite", h)
                           ELSE Call("AllocationOverwrite", h, "ok", Len(bytes), r.addr,
                                     NoRefs),
                           bytes)
    /\ UNCHANGED <<allocators, allocations, handlesIssued, freeCalls, nullFreeCalls,
                   flushCalls, claims>>

\* --------------------------------------------------------- specifications
NextPool ==
    \/ \E p \in PoolSlots, t \in MemoryTypes : PoolAllocate(p, t, MaxSize)
    \/ \E p \in PoolSlots : PoolDefaultConstruct(p)
    \/ \E p, q \in PoolSlots : PoolMoveConstruct(p, q)
    \/ \E p, q \in PoolSlots : PoolMoveAssign(p, q)
    \/ \E p \in PoolSlots : PoolDestroy(p)
    \/ \E p \in PoolSlots : PoolGetMappedAddress(p)
    \/ \E a \in AllocatorSlots, p \in PoolSlots : AllocatorConstruct(a, p)
    \/ \E a \in AllocatorSlots, q \in PoolSlots : AllocatorFreePool(a, q)
    \/ \E a \in AllocatorSlots : AllocatorDestroy(a)

\* Pools, allocators and the native memory calls.
SpecPool == Init /\ [][NextPool]_vars

\* The pool slot Allocations are issued from besides the allocators' own pools.
ViewedPoolSlots == 1..NViewedPools
\* The views issued in the life-cycle specification, as <<offset, size>>.
LifeViews == {<<0, 1>>, <<1, MaxSize>>}
\* The buffers written outside the memory-content specifications: zero-filled,
\* of every length up to one more than the largest view.
ZeroBuffers == {ZeroBytes(n) : n \in 0..(MaxSize + 1)}

NextAllocation ==
    \/ \E p \in ViewedPoolSlots : PoolAllocate(p, 2, MaxSize)
    \/ \E p \in ViewedPoolSlots : PoolDestroy(p)
    \/ \E a \in AllocatorSlots, p \in ViewedPoolSlots : AllocatorConstruct(a, p)
    \/ \E a \in AllocatorSlots : AllocatorDestroy(a)
    \/ \E h \in AllocationSlots, a \in AllocatorSlots, v \in LifeViews :
        \E p \in ViewedPoolSlots \cup {MemberPool(a)} : AllocateView(h, a, p, v[1], v[2])
    \/ \E h \in AllocationSlots : AllocationDefaultConstruct(h)
    \/ \E h, g \in AllocationSlots : AllocationMoveConstruct(h, g)
    \/ \E h, g \in AllocationSlots : AllocationMoveAssign(h, g)
    \/ \E h \in AllocationSlots : AllocationDestroy(h)
    \/ \E h \in AllocationSlots : AllocationBool(h)

\* Allocations, with the pools and allocators they refer to.
SpecAllocation == Init /\ [][NextAllocation]_vars

\* The views issued in the accessor specification, as <<offset, size>>.
AccessViews == {<<1, MaxSize - 1>>}

NextAccess ==
    \/ \E p \in ViewedPoolSlots, t \in MemoryTypes : PoolAllocate(p, t, MaxSize)
    \/ \E p \in ViewedPoolSlots : PoolDestroy(p)
    \/ \E a \in AllocatorSlots, p \in ViewedPoolSlots : AllocatorConstruct(a, p)
    \/ \E a \in AllocatorSlots : AllocatorDestroy(a)
    \/ \E h \in AllocationSlots, a \in AllocatorSlots, v \in AccessViews :
        \E p \in ViewedPoolSlots \cup {MemberPool(a)} : AllocateView(h, a, p, v[1], v[2])
    \/ \E h \in AllocationSlots : AllocationDestroy(h)
    \/ \E h \in AllocationSlots : AllocationMemory(h)
    \/ \E h \in AllocationSlots : AllocationOffset(h)
    \/ \E h \in AllocationSlots : AllocationSize(h)
    \/ \E h \in AllocationSlots : AllocationProperties(h)
    \/ \E h \in AllocationSlots : AllocationGetMappedAddress(h)
    \/ \E h \in AllocationSlots : AllocationFlush(h)
    \/ \E h \in AllocationSlots, bytes \in ZeroBuffers : AllocationOverwrite(h, bytes)

\* The accessors of Allocations, with the pools and allocators behind them.
SpecAccess == Init /\ [][NextAccess]_vars

\* The sizes of the pools requested, the requests made and the masks they
\* carry: type 0 only, types 1 and 2, every type.
PoolSizes == 1..MaxSize
RequestMasks == {1, 6, 7}
Requests == {Request(size, alignment, mask) :
                size \in 1..(MaxSize + 1), alignment \in {1, 2}, mask \in RequestMasks}

NextRequest ==
    \/ \E p \in ViewedPoolSlots, t \in MemoryTypes, size \in PoolSizes :
        PoolAllocate(p, t, size)
    \/ \E p \in ViewedPoolSlots : PoolDestroy(p)
    \/ \E a \in AllocatorSlots, p \in ViewedPoolSlots : AllocatorConstruct(a, p)
    \/ \E a \in AllocatorSlots : AllocatorDestroy(a)
    \/ \E h \in AllocationSlots, a \in AllocatorSlots, req \in Requests :
        AllocatorAllocate(h, a, req)
    \/ \E h \in AllocationSlots : AllocationDestroy(h)
    \/ \E r, t \in Reasons : AllocationErrorIsType(r, t)

\* Pools and Allocations requested, and the errors the requests end in.
SpecRequest == Init /\ [][NextRequest]_vars

\* The byte values written in the memory-content specification; device
\* memory starts zero-filled.
PatternBytes == {1, 2}
\* The buffers written: one byte value repeated, of every length up to one
\* more than the largest pool.
Buffers == {[i \in 1..n |-> b] : n \in 0..(MaxSize + 1), b \in PatternBytes}
\* The memory types of the pools written to: host-visible, coherent or not.
ContentTypes == {t \in MemoryTypes : HostVisible(t)}
\* The views issued in the memory-content specification, as <<offset, size>>:
\* two disjoint views that fill the pool, and one that ends beyond it.
ContentViews == {<<0, 1>>, <<1, MaxSize - 1>>, <<1, MaxSize>>}

NextContent ==
    \/ \E p \in ViewedPoolSlots, t \in ContentTypes : PoolAllocate(p, t, MaxSize)
    \/ \E a \in AllocatorSlots, p \in ViewedPoolSlots : AllocatorConstruct(a, p)
    \/ \E h \in AllocationSlots, a \in AllocatorSlots, v \in ContentViews :
        \E p \in ViewedPoolSlots \cup {MemberPool(a)} : AllocateView(h, a, p, v[1], v[2])
    \/ \E p \in ViewedPoolSlots : PoolGetMappedAddress(p)
    \/ \E p \in ViewedPoolSlots : PoolFlush(p)
    \/ \E p \in ViewedPoolSlots, bytes \in Buffers : PoolOverwrite(p, bytes)
    \/ \E h \in AllocationSlots, bytes \in Buffers : AllocationOverwrite(h, bytes)

\* The contents of device memory, written through pools and Allocations.
SpecContent == Init /\ [][NextContent]_vars

\* ================================================================ claims
HoldersOf(c) ==
    {h \in AllocationSlots : allocations[h].alive /\ allocations[h].claim = c}

\* The claim's allocator and pool have both stayed alive since it was issued.
Intact(c) ==
    claims[c].issued /\ ~claims[c].allocatorDestroyed /\ ~claims[c].poolDestroyed

\* C1: while the allocator and the pool of a claim stay alive, Allocator::Free
\* has been invoked for the claim exactly once when no Allocation holds it any
\* more, and not at all while one does; never twice, however often the
\* Allocation was moved.
SingleRelease ==
    \A c \in Claims :
        Intact(c) =>
            /\ Cardinality(HoldersOf(c)) <= 1
            /\ claims[c].released = (IF HoldersOf(c) = {} THEN 1 ELSE 0)

\* A claim moved twice, its last holder destroyed, released once.
SingleReleaseWitness ==
    \E c \in Claims :
        /\ Intact(c)
        /\ claims[c].moves = MaxCounted
        /\ HoldersOf(c) = {}
        /\ claims[c].released = 1

\* C2: every native handle is passed to vkFreeMemory exactly once (at most once
\* ever, and once when no pool holds it any more), and a pool whose handle is
\* null never calls vkFreeMemory.
NativeFreeExactlyOnce ==
    /\ \A m \in 1..handlesIssued :
        /\ freeCalls[m] <= 1
        /\ (\A p \in AllPoolSlots : ~(pools[p].alive /\ pools[p].mMemory = m))
               => freeCalls[m] = 1
    /\ "~MemoryPool" \notin nullFreeCalls

\* C3: Allocator::Free is never invoked for an Allocation whose pool has been
\* destroyed.
NoReleaseAfterPoolDestroyed ==
    \A c \in Claims : claims[c].releasedAfterPool = 0

\* An Allocation whose backing pool has been destroyed.
PoolGone(al) == al.alive /\ al.mRawAllocation = StalePtr

\* The accessors of Allocation that reach into the pool, and those that read
\* the Allocation's own fields.
PoolAccessors ==
    {"AllocationMemory", "AllocationProperties", "AllocationGetMappedAddress",
     "AllocationFlush", "AllocationOverwrite"}
FieldAccessors == {"AllocationOffset", "AllocationSize"}

\* C4, as claimed: once the backing pool is destroyed, every accessor of the
\* Allocation (Memory, Offset, Size, Properties, GetMappedAddress, Flush,
\* Overwrite) ends in the fail-fast outcome.
StaleAccessAlwaysFails ==
    [][\A h \in AllocationSlots :
        (/\ PoolGone(allocations[h])
         /\ lastCall'.obj = h
         /\ lastCall'.op \in PoolAccessors \cup FieldAccessors)
            => lastCall'.outcome = "failfast"]_vars

\* C4, amended: once the backing pool is destroyed, Memory, Properties,
\* GetMappedAddress, Flush and Overwrite end in the fail-fast outcome and touch
\* neither the pools, the mappings, the flushed ranges nor the memory; Offset
\* and Size return the Allocation's stored offset and size.
StaleAccessOutcome ==
    [][\A h \in AllocationSlots :
        (PoolGone(allocations[h]) /\ lastCall'.obj = h) =>
            /\ lastCall'.op \in PoolAccessors =>
                  (/\ lastCall'.outcome = "failfast"
                   /\ UNCHANGED <<pools, mapCalls, flushCalls, memory>>)
            /\ lastCall'.op = "AllocationOffset" =>
                  (lastCall'.outcome = "ok" /\ lastCall'.val = allocations[h].mOffset)
            /\ lastCall'.op = "AllocationSize" =>
                  (lastCall'.outcome = "ok" /\ lastCall'.val = allocations[h].mSize)]_vars

\* GetMappedAddress called on an Allocation whose pool is gone: the process
\* has terminated.
StaleAccessWitness ==
    /\ lastCall.op = "AllocationGetMappedAddress"
    /\ lastCall.outcome = "failfast"
    /\ PoolGone(allocations[lastCall.obj])
    /\ Valid(allocations[lastCall.obj].mAllocator)

\* C5: in every Allocation the allocator reference and the pool reference are
\* both live or both absent.
BothOrNeither ==
    \A h \in AllocationSlots :
        allocations[h].alive =>
            (Valid(allocations[h].mAllocator) <=> Valid(allocations[h].mRawAllocation))

\* C6: operator bool of an empty Allocation (neither reference) returns false
\* without failing, and of an Allocation holding both references returns true.
BoolContract ==
    lastCall.op = "AllocationBool" =>
        LET al == allocations[lastCall.obj]
        IN  /\ (al.mAllocator = NullPtr /\ al.mRawAllocation = NullPtr)
                => (lastCall.outcome = "ok" /\ lastCall.val = 0)
            /\ (Valid(al.mAllocator) /\ Valid(al.mRawAllocation))
                => (lastCall.outcome = "ok" /\ lastCall.val = 1)

\* An Allocation whose allocator was destroyed while its pool lives.
Orphaned(al) == al.alive /\ al.mAllocator = StalePtr /\ Valid(al.mRawAllocation)

\* C7: destroying an Allocation whose allocator was destroyed first, the pool
\* still alive, completes normally without calling Free and without
\* terminating the process.
OrphanDestroyIsNoOp ==
    [][\A h \in AllocationSlots :
        (Orphaned(allocations[h]) /\ lastCall'.op = "AllocationDestroy" /\ lastCall'.obj = h)
            => (lastCall'.outcome = "ok" /\ lastCall'.val = 0 /\ ~allocations'[h].alive)]_vars

\* C8: when ~Allocation has called Free, the Allocation's own allocator and
\* pool references are both cleared.
DtorLeavesEmpty ==
    (lastCall.op = "AllocationDestroy" /\ lastCall.outcome = "ok" /\ lastCall.val = 1)
        => lastCall.refs = <<NullPtr, NullPtr>>

\* C9: a MemoryPool::GetMappedAddress call that directly follows a successful
\* one on the same pool object returns the same address and performs no native
\* map.
RepeatedMapIsIdempotent ==
    [][(/\ lastCall.op = "PoolGetMappedAddress"
        /\ lastCall.outcome = "ok"
        /\ lastCall'.op = "PoolGetMappedAddress"
        /\ lastCall'.obj = lastCall.obj)
            => (/\ lastCall'.outcome = "ok"
                /\ lastCall'.addr = lastCall.addr
                /\ mapCalls' = mapCalls)]_vars

\* GetMappedAddress called twice in a row on a host-visible pool, one native map.
RepeatedMapWitness ==
    /\ lastCall.op = "PoolGetMappedAddress"
    /\ lastCall.outcome = "ok"
    /\ lastCall.val = MaxCounted
    /\ HostVisible(pools[lastCall.obj].mMemoryTypeIndex)
    /\ mapCalls[pools[lastCall.obj].mMemory] = 1

\* C10: vkMapMemory is called at most once for each native memory object, and
\* every address GetMappedAddress returns for it is that of the first mapping.
MappedAtMostOnce ==
    /\ \A m \in Handles : mapCalls[m] <= 1
    /\ (lastCall.op = "PoolGetMappedAddress" /\ lastCall.outcome = "ok")
           => lastCall.addr[2] = 1

\* A flushed range <<memory, offset, size>> that covers [off, off + size) of
\* memory object m.
Covers(range, m, off, size) ==
    /\ range[1] = m
    /\ range[2] <= off
    /\ (range[3] = WholeSize \/ off + size <= range[2] + range[3])

\* C11: a MemoryPool::Overwrite(bytes) call with Len(bytes) <= Size() that
\* returns has stored the bytes from offset 0 of the pool's memory and has
\* called the native flush (once, on the whole memory object) exactly when
\* the pool's memory type is not host-coherent; on a coherent pool the call
\* makes no native flush call, whatever its outcome.
PoolOverwriteFlushesIffNonCoherent ==
    [][\A p \in AllPoolSlots :
        (/\ lastCall'.op = "PoolOverwrite"
         /\ lastCall'.obj = p
         /\ Len(lastCall'.args) <= pools[p].mSize) =>
            LET m == pools[p].mMemory
                coherent == HostCoherent(pools[p].mMemoryTypeIndex)
            IN  /\ lastCall'.outcome = "ok" =>
                    /\ \A i \in 1..Len(lastCall'.args) :
                           memory'[m][i] = lastCall'.args[i]
                    /\ lastCall'.val = (IF coherent THEN 0 ELSE 1)
                    /\ ~coherent => <<m, 0, WholeSize>> \in flushCalls'
                /\ coherent => flushCalls' = flushCalls]_vars

\* A full-size pattern written through a non-coherent pool and flushed.
PoolOverwriteWitness ==
    /\ lastCall.op = "PoolOverwrite"
    /\ lastCall.outcome = "ok"
    /\ lastCall.val = 1
    /\ Len(lastCall.args) = MaxSize
    /\ ~HostCoherent(pools[lastCall.obj].mMemoryTypeIndex)
    /\ memory[pools[lastCall.obj].mMemory] = lastCall.args
    /\ <<pools[lastCall.obj].mMemory, 0, WholeSize>> \in flushCalls

\* C12: when Allocation::Overwrite returns on an Allocation of a host-visible,
\* non-coherent pool, a native flush covering the Allocation's range
\* [Offset(), Offset() + Size()) of the pool's memory has been made.
AllocationOverwriteFlushes ==
    [][\A h \in AllocationSlots :
        (/\ lastCall'.op = "AllocationOverwrite"
         /\ lastCall'.obj = h
         /\ lastCall'.outcome = "ok"
         /\ Valid(allocations[h].mRawAllocation)
         /\ pools[allocations[h].mRawAllocation].mMemory # NullHandle
         /\ HostVisible(pools[allocations[h].mRawAllocation].mMemoryTypeIndex)
         /\ ~HostCoherent(pools[allocations[h].mRawAllocation].mMemoryTypeIndex)) =>
            \E range \in flushCalls' :
                Covers(range, pools[allocations[h].mRawAllocation].mMemory,
                       allocations[h].mOffset, allocations[h].mSize)]_vars

\* C13, as claimed, of the Allocations that lie inside a live pool:
\* Allocation::Overwrite with a buffer longer than Size() fails fast and
\* leaves the memory unchanged, and with any buffer of length at most Size()
\* it does not fail.
OverwriteFailsIffTooLong ==
    [][\A h \in AllocationSlots :
        (/\ lastCall'.op = "AllocationOverwrite"
         /\ lastCall'.obj = h
         /\ Valid(allocations[h].mRawAllocation)
         /\ allocations[h].mOffset + allocations[h].mSize
                <= pools[allocations[h].mRawAllocation].mSize) =>
            IF Len(lastCall'.args) > allocations[h].mSize
            THEN lastCall'.outcome = "failfast" /\ memory' = memory
            ELSE lastCall'.outcome = "ok"]_vars

\* C13, amended: Allocation::Overwrite with a buffer longer than Size() fails
\* fast before anything is mapped or copied; with a buffer of length at most
\* Size() the length assertion passes, and the call fails fast only when
\* GetMappedAddress does (no live pool behind the Allocation, or nothing
\* mapped yet and the pool is empty, not host-visible or the native map
\* fails) and otherwise ends abnormally only when the copy runs past the end
\* of the pool.
OverwriteBounds ==
    [][\A h \in AllocationSlots :
        (lastCall'.op = "AllocationOverwrite" /\ lastCall'.obj = h) =>
            LET al == allocations[h]
                n == Len(lastCall'.args)
            IN  IF n > al.mSize
                THEN /\ lastCall'.outcome = "failfast"
                     /\ UNCHANGED <<memory, pools, mapCalls, flushCalls>>
                ELSE /\ lastCall'.outcome = "failfast" =>
                        \/ ~Valid(al.mRawAllocation)
                        \/ LET pool == pools[al.mRawAllocation]
                           IN  /\ pool.mMappedAddress = NoAddress
                               /\ \/ ~pool.mPhysicalDevice
                                  \/ ~pool.mDevice
                                  \/ ~HostVisible(pool.mMemoryTypeIndex)
                                  \/ mapCalls' # mapCalls
                    /\ lastCall'.outcome = "crash" =>
                        /\ Valid(al.mRawAllocation)
                        /\ al.mOffset + n > pools[al.mRawAllocation].mSize]_vars

\* A buffer one byte too long offered to an Allocation whose pool is mapped
\* and holds a pattern: the call has failed fast.
OverwriteBoundsWitness ==
    /\ lastCall.op = "AllocationOverwrite"
    /\ lastCall.outcome = "failfast"
    /\ LET al == allocations[lastCall.obj]
       IN  /\ Len(lastCall.args) = al.mSize + 1
           /\ Valid(al.mRawAllocation)
           /\ pools[al.mRawAllocation].mMappedAddress # NoAddress
           /\ pools[al.mRawAllocation].mMemory # NullHandle
           /\ \E i \in 1..MaxSize :
                  memory[pools[al.mRawAllocation].mMemory][i] \in PatternBytes

\* C14: every Allocation issued by MemoryPool::AllocateView lies inside the
\* pool it views: offset + size <= pool.Size() when it is created.
ViewWithinPool ==
    [][\A h \in AllocationSlots, c \in Claims :
        (/\ ~claims[c].issued
         /\ claims'[c].issued
         /\ ~allocations[h].alive
         /\ allocations'[h].claim = c) =>
            allocations'[h].mOffset + allocations'[h].mSize
                <= pools[claims'[c].pool].mSize]_vars

\* C15: Allocation::Overwrite changes no byte of device memory other than
\* bytes [Offset(), Offset() + Len(bytes)) of the memory of the Allocation's
\* pool, and when it returns those bytes are bytes of the pool and hold the
\* buffer (so that reading them back yields what was written).
OverwriteFrame ==
    [][\A h \in AllocationSlots :
        (/\ lastCall'.op = "AllocationOverwrite"
         /\ lastCall'.obj = h
         /\ Valid(allocations[h].mRawAllocation)) =>
            LET al == allocations[h]
                m == pools[al.mRawAllocation].mMemory
                n == Len(lastCall'.args)
            IN  /\ \A mm \in Handles : \A i \in 1..Len(memory[mm]) :
                       memory'[mm][i] # memory[mm][i] =>
                           (mm = m /\ al.mOffset < i /\ i <= al.mOffset + n)
                /\ (lastCall'.outcome = "ok" /\ n > 0) =>
                       /\ m # NullHandle
                       /\ al.mOffset + n <= pools[al.mRawAllocation].mSize
                       /\ \A i \in 1..n :
                              memory'[m][al.mOffset + i] = lastCall'.args[i]]_vars

\* C16: MemoryPool::Allocate returns OutOfMemory and constructs no pool when
\* vkAllocateMemory reports out-of-host-memory or out-of-device-memory;
\* returns a pool holding the native handle, the requested size and the
\* requested memory-type index when it reports success; and terminates,
\* constructing no pool, for any other native result.
AllocateClassifiesNativeResult ==
    [][\A p \in AllPoolSlots :
        (lastCall'.op = "PoolAllocate" /\ lastCall'.obj = p) =>
            IF lastCall'.native = "VK_SUCCESS"
            THEN /\ lastCall'.outcome = "ok"
                 /\ ~pools[p].alive /\ pools'[p].alive
                 /\ handlesIssued' = handlesIssued + 1
                 /\ pools'[p].mMemory = handlesIssued'
                 /\ lastCall'.val = pools'[p].mMemory
                 /\ pools'[p].mMemoryTypeIndex = lastCall'.args[1]
                 /\ pools'[p].mSize = lastCall'.args[2]
            ELSE /\ lastCall'.outcome =
                        (IF lastCall'.native \in {"VK_ERROR_OUT_OF_HOST_MEMORY",
                                                  "VK_ERROR_OUT_OF_DEVICE_MEMORY"}
                         THEN "OutOfMemory" ELSE "failfast")
                 /\ pools' = pools
                 /\ handlesIssued' = handlesIssued]_vars

\* Out of device memory, reported for the second pool requested: no pool was
\* constructed.
AllocateOutOfMemoryWitness ==
    /\ lastCall.op = "PoolAllocate"
    /\ lastCall.native = "VK_ERROR_OUT_OF_DEVICE_MEMORY"
    /\ lastCall.outcome = "OutOfMemory"
    /\ ~pools[lastCall.obj].alive
    /\ handlesIssued = 1

\* C17: Allocator::Allocate with a request whose mask has no bit for the
\* memory type of the pool the allocator manages returns
\* MemoryTypeUnavailable (so never OutOfMemory) and changes nothing.
UnavailableTypeIsReported ==
    [][\A a \in AllocatorSlots :
        (/\ lastCall'.op = "AllocatorAllocate"
         /\ lastCall'.obj = a
         /\ LET t == pools[MemberPool(a)].mMemoryTypeIndex
            IN  t \notin {i \in MemoryTypes : (lastCall'.args[3] \div (2 ^ i)) % 2 = 1}) =>
            /\ lastCall'.outcome = "MemoryTypeUnavailable"
            /\ UNCHANGED <<pools, allocators, allocations, claims, handlesIssued,
                           freeCalls, nullFreeCalls, mapCalls, flushCalls, memory>>]_vars

\* A request for types 1 and 2 made of an allocator whose pool holds memory
\* of type 0, large enough for it: MemoryTypeUnavailable.
UnavailableTypeWitness ==
    /\ lastCall.op = "AllocatorAllocate"
    /\ lastCall.outcome = "MemoryTypeUnavailable"
    /\ lastCall.args[3] = 6
    /\ pools[MemberPool(lastCall.obj)].mMemory # NullHandle
    /\ pools[MemberPool(lastCall.obj)].mMemoryTypeIndex = 0
    /\ lastCall.args[1] <= pools[MemberPool(lastCall.obj)].mSize

\* C18: an AllocationError can be constructed from each of OutOfMemory,
\* MemoryTypeUnavailable and RequestTooLarge, and an error constructed from
\* reason R answers IsType<T> with true exactly for T = R.
ErrorIsClosedSumOfThree ==
    lastCall.op = "AllocationErrorIsType" =>
        /\ lastCall.outcome = "ok"
        /\ lastCall.val = (IF lastCall.args[1] = lastCall.args[2] THEN 1 ELSE 0)

\* An Allocation holding live references to both its allocator and its pool.
Bound(al) == al.alive /\ Valid(al.mAllocator) /\ Valid(al.mRawAllocation)
\* An Allocation holding neither reference.
Empty(al) == al.alive /\ al.mAllocator = NullPtr /\ al.mRawAllocation = NullPtr

\* C19: a move-assignment h = std::move(g) that returns, with g another
\* object than h, has called Free for the claim h held exactly once if h was
\* Bound and not at all if h was empty, with h's old references and before
\* taking g's; afterwards h holds the allocator, pool, offset and size g held
\* and g holds no reference.  With g = h it calls Free for no claim and
\* changes no Allocation.
MoveAssignReleasesThenTakes ==
    [][\A h \in AllocationSlots :
        (/\ lastCall'.op = "AllocationMoveAssign"
         /\ lastCall'.obj = h
         /\ lastCall'.outcome = "ok") =>
            LET g == lastCall'.args[1]
                target == allocations[h]
                source == allocations[g]
                freed(c) == claims'[c].released - claims[c].released
            IN  IF g = h
                THEN /\ allocations' = allocations
                     /\ \A c \in Claims : freed(c) = 0
                     /\ lastCall'.val = 0
                ELSE /\ Bound(target) =>
                        /\ freed(target.claim) = 1
                        /\ lastCall'.val = 1
                        /\ lastCall'.refs = <<target.mAllocator, target.mRawAllocation>>
                     /\ Empty(target) => lastCall'.val = 0
                     /\ \A c \in Claims :
                            (Empty(target) \/ c # target.claim) => freed(c) = 0
                     /\ allocations'[h].alive
                     /\ allocations'[h].mAllocator = source.mAllocator
                     /\ allocations'[h].mRawAllocation = source.mRawAllocation
                     /\ allocations'[h].mOffset = source.mOffset
                     /\ allocations'[h].mSize = source.mSize
                     /\ Empty(allocations'[g])]_vars

\* A Bound Allocation has been move-assigned onto another Bound Allocation:
\* Free was called for the claim the target held, the target is Bound and the
\* source empty.
MoveAssignWitness ==
    /\ lastCall.op = "AllocationMoveAssign"
    /\ lastCall.outcome = "ok"
    /\ lastCall.val = 1
    /\ lastCall.args[1] # lastCall.obj
    /\ Valid(lastCall.refs[1]) /\ Valid(lastCall.refs[2])
    /\ Bound(allocations[lastCall.obj])
    /\ allocations[lastCall.obj].mSize > 0
    /\ Empty(allocations[lastCall.args[1]])
    /\ \E c \in Claims : claims[c].released = 1 /\ HoldersOf(c) = {}

\* C20: a pool that holds no native handle (moved-from or default
\* constructed) has size 0 and no cached mapped address, and
\* MemoryPool::GetMappedAddress never returns an address inside memory the
\* pool it is called on does not hold.
MovedFromPoolIsEmpty ==
    /\ \A p \in AllPoolSlots :
           (pools[p].alive /\ pools[p].mMemory = NullHandle) =>
               (pools[p].mSize = 0 /\ pools[p].mMappedAddress = NoAddress)
    /\ (lastCall.op = "PoolGetMappedAddress" /\ lastCall.outcome = "ok") =>
           lastCall.addr[1] = pools[lastCall.obj].mMemory

====
